---- MODULE Spec2Model ----
(***************************************************************************)
(* A model of whatsapp_convert.py: the header matcher (ParseLine), the     *)
(* segmenter (IdentifyMessages), the sender grouper (TemplateData) and the *)
(* per-message media dispatch of the HTML template (FormatHTML).           *)
(*                                                                         *)
(* A Python str is modelled as a sequence of characters, each character a  *)
(* one-character TLA+ string.  Characters outside ASCII are named atoms    *)
(* ("c_cedilla" for U+00E7, "a_tilde" for U+00E3, "i_acute" for U+00ED,    *)
(* "LRM" for U+200E).  The regular-expression pattern constants, which are *)
(* only ever printed, are sequences of longer chunks split at backslashes. *)
(***************************************************************************)
EXTENDS Integers, Sequences, FiniteSets, TLC

VARIABLES
    lines,          \* the list handed to IdentifyMessages (fd.readlines())
    input_filename, \* args.input_file
    idx,            \* number of lines the for loop has consumed
    msg,            \* (msg_date, msg_user, msg_body), NoMsg while msg_date is None
    messages,       \* the list IdentifyMessages builds
    pc,             \* position of main()
    err,            \* the exception that ended the run, NoErr if none
    data,           \* the dictionary TemplateData returns
    html,           \* outcome of FormatHTML
    pline,          \* ParseLine harness: the line
    presult,        \* ParseLine harness: what ParseLine did with it
    rmsg,           \* template harness: user, users, input_basename, body
    rout            \* template harness: outcome of rendering that message

vars == <<lines, input_filename, idx, msg, messages, pc, err, data, html,
          pline, presult, rmsg, rout>>

-----------------------------------------------------------------------------
(* Generic string helpers (Python str methods used by the program).        *)

NL == "\n"

RECURSIVE Flatten(_)
Flatten(ss) == IF ss = <<>> THEN <<>> ELSE Head(ss) \o Flatten(Tail(ss))

\* s[i:] and s[i:j] with 0-based Python indices, 0 <= i, clipped like Python
Slice(s, i, j) ==
    LET jj == IF j > Len(s) THEN Len(s) ELSE j
    IN  IF i >= jj THEN <<>> ELSE SubSeq(s, i + 1, jj)
SliceFrom(s, i) == Slice(s, i, Len(s))

\* sub occurs in s at 0-based offset k
OccursAt(s, sub, k) ==
    /\ k >= 0
    /\ k + Len(sub) <= Len(s)
    /\ \A n \in 1..Len(sub) : s[k + n] = sub[n]

\* sub in s
In(sub, s) == \E k \in 0..Len(s) : OccursAt(s, sub, k)

\* s.endswith(sub)
EndsWith(s, sub) == OccursAt(s, sub, Len(s) - Len(sub))

\* s.index(sub): the lowest offset, or -1 standing for ValueError
Index(s, sub) ==
    IF In(sub, s)
    THEN CHOOSE k \in 0..Len(s) :
            OccursAt(s, sub, k) /\ \A j \in 0..(k - 1) : ~OccursAt(s, sub, j)
    ELSE -1

\* characters str.strip() removes
IsSpace(c) == c \in {" ", "\t", "\n", "\r", "\f"}

RECURSIVE LStrip(_)
LStrip(s) == IF s # <<>> /\ IsSpace(Head(s)) THEN LStrip(Tail(s)) ELSE s

RECURSIVE RStrip(_)
RStrip(s) ==
    IF s # <<>> /\ IsSpace(s[Len(s)]) THEN RStrip(SubSeq(s, 1, Len(s) - 1)) ELSE s

\* line.strip(): whitespace removed at both ends
Strip(s) == LStrip(RStrip(s))

\* length of the longest run of characters of class C starting at 1-based p
Run(s, p, C) ==
    IF p > Len(s) THEN 0
    ELSE (CHOOSE q \in p..(Len(s) + 1) :
             /\ q > Len(s) \/ s[q] \notin C
             /\ \A r \in p..(q - 1) : s[r] \in C) - p

\* length of the longest run of characters outside X starting at p
RunNotIn(s, p, X) ==
    IF p > Len(s) THEN 0
    ELSE (CHOOSE q \in p..(Len(s) + 1) :
             /\ q > Len(s) \/ s[q] \in X
             /\ \A r \in p..(q - 1) : s[r] \notin X) - p

RunUntil(s, p, c) == RunNotIn(s, p, {c})

\* repr() of a str: quoted, with backslash, the quote and control characters
\* escaped; double quotes are chosen when the text has ' and no "
EscapeChar(c, q) ==
    CASE c = "\\" -> <<"\\", "\\">>
      [] c = "\n" -> <<"\\", "n">>
      [] c = "\t" -> <<"\\", "t">>
      [] c = "\r" -> <<"\\", "r">>
      [] c = "\f" -> <<"\\", "x", "0", "c">>
      [] c = q    -> <<"\\", q>>
      [] OTHER    -> <<c>>

Repr(s) ==
    LET hasS == \E n \in 1..Len(s) : s[n] = "'"
        hasD == \E n \in 1..Len(s) : s[n] = "\""
        q    == IF hasS /\ ~hasD THEN "\"" ELSE "'"
    IN  <<q>> \o Flatten([n \in 1..Len(s) |-> EscapeChar(s[n], q)]) \o <<q>>

-----------------------------------------------------------------------------
(* The export-line grammar, lines 17-30.                                   *)

Digit == {"0", "1", "2", "3", "4", "5", "6", "7", "8", "9"}
DateClass == Digit \cup {"/", "-"}        \* [\d/-]
TimeClass == Digit \cup {":"}             \* [\d:]

DATE_RE == <<"(?P<date>[", "\\", "d/-]+)">>
TIME_RE == <<"(?P<time>[", "\\", "d:]+( [AP]M)?)">>
DATETIME_RE == <<"\\", "[?">> \o DATE_RE \o <<",? ">> \o TIME_RE \o <<"\\", "]?">>
SEPARATOR_RE == <<"( - |: | )">>
NAME_RE == <<"(?P<name>[^:]+)">>
WHATSAPP_RE == DATETIME_RE \o SEPARATOR_RE \o NAME_RE \o <<": ", "(?P<body>.*$)">>
FIRSTLINE_RE == DATETIME_RE \o SEPARATOR_RE \o <<"(?P<body>.*$)">>

NoMatch == [ok |-> FALSE]

SeparatorAlt == << <<" ", "-", " ">>, <<":", " ">>, <<" ">> >>

At(s, p) == IF p >= 1 /\ p <= Len(s) THEN s[p] ELSE "<end>"

\* ' [AP]M' at 1-based position p
AmPmAt(s, p) == At(s, p) = " " /\ At(s, p + 1) \in {"A", "P"} /\ At(s, p + 2) = "M"

\* The part of DATETIME_RE before the time: \[? date ,? and one space.  Each
\* of these has one way to match (the character after each piece is outside
\* the piece's class), so the backtracking matcher has no choice here.
\* timeS is the 1-based position where the time group starts, tmax the
\* length of the [\d:] run there.
DatePrefixAt(s, b, dlen) ==
    LET c  == IF At(s, 1 + b + dlen) = "," THEN 1 ELSE 0
        sp == 1 + b + dlen + c
    IN  [ok    |-> dlen >= 1 /\ At(s, sp) = " ",
         dateS |-> 1 + b, dateE |-> b + dlen, timeS |-> sp + 1,
         tmax  |-> Run(s, sp + 1, TimeClass)]

DatePrefix(s) ==
    CHOOSE pre \in {DatePrefixAt(s, b, Run(s, 1 + b, DateClass)) :
                       b \in {IF At(s, 1) = "[" THEN 1 ELSE 0}} : TRUE

\* The rest of a match once the separator has been matched and ends at sepE:
\* [^:]+ then ': ' (named, WHATSAPP_RE) and the body .*$ .  [^:]+ and .* have
\* one way to match: the text up to the next colon, the text up to the next
\* newline, which $ wants at the end or as the last character.
TailAt(s, named, pre, tE, sepE, nlen) ==
    LET nameS == sepE + 1
        colOK == ~named \/ (nlen >= 1 /\ At(s, nameS + nlen) = ":"
                                      /\ At(s, nameS + nlen + 1) = " ")
        bodyS == IF named THEN nameS + nlen + 2 ELSE nameS
        bodyE == bodyS + RunUntil(s, bodyS, NL) - 1
        endOK == bodyE = Len(s) \/ (bodyE = Len(s) - 1 /\ s[Len(s)] = NL)
    IN  IF colOK /\ endOK
        THEN [ok    |-> TRUE,
              date  |-> Slice(s, pre.dateS - 1, pre.dateE),
              time  |-> Slice(s, pre.timeS - 1, tE),
              sepE  |-> sepE,
              name  |-> Slice(s, nameS - 1, nameS + nlen - 1),
              bodyS |-> bodyS,
              body  |-> Slice(s, bodyS - 1, bodyE)]
        ELSE NoMatch

\* One path of the backtracking matcher through DATETIME_RE SEPARATOR_RE and
\* the tail of WHATSAPP_RE (named) or FIRSTLINE_RE: the time's digit run has
\* tlen characters, ( [AP]M)? is taken or not, SEPARATOR_RE takes alternative
\* alt.  \]? has one way to match once these are fixed.
Path(s, named, pre, tlen, ampm, alt) ==
    LET tE   == pre.timeS + tlen - 1 + (IF ampm THEN 3 ELSE 0)
        br   == IF At(s, tE + 1) = "]" THEN 1 ELSE 0
        sep  == SeparatorAlt[alt]
        sepE == tE + br + Len(sep)
    IN  IF /\ pre.ok
           /\ tlen >= 1 /\ tlen <= pre.tmax
           /\ (ampm => AmPmAt(s, pre.timeS + tlen))
           /\ OccursAt(s, sep, tE + br)
        THEN CHOOSE r \in {TailAt(s, named, pre, tE, sepE, nlen) :
                             nlen \in {IF named THEN RunUntil(s, sepE + 1, ":") ELSE 0}} : TRUE
        ELSE NoMatch

\* The paths in the matcher's search order, numbered from 0: the greedy
\* [\d:]+ tries the longest run first, ( [AP]M)? tries taking it first, the
\* alternation tries its branches left to right; the later choice varies
\* faster.
PathNo(s, named, pre, k) ==
    Path(s, named, pre, pre.tmax - (k \div 6), (k % 6) < 3, (k % 3) + 1)

FirstPath(s, named, pre, good) ==
    IF good = {} THEN NoMatch
    ELSE PathNo(s, named, pre, CHOOSE k \in good : \A o \in good : k <= o)

MatchFrom(s, named, pre) ==
    CHOOSE r \in {FirstPath(s, named, pre, good) :
                     good \in {{k \in 0..(pre.tmax * 6 - 1) : PathNo(s, named, pre, k).ok}}} : TRUE

\* re.match(WHATSAPP_RE, line) (named) or re.match(FIRSTLINE_RE, line): the
\* first path, in search order, that matches
ReMatch(s, named) ==
    CHOOSE r \in {MatchFrom(s, named, pre) : pre \in {DatePrefix(s)}} : TRUE

\* a.end() - a.start() for a = re.match(DATETIME_RE, line): with nothing
\* after it the greedy choice of every piece matches
SpanFrom(s, pre) ==
    LET tE == pre.timeS + pre.tmax - 1
                + (IF AmPmAt(s, pre.timeS + pre.tmax) THEN 3 ELSE 0)
    IN  tE + (IF At(s, tE + 1) = "]" THEN 1 ELSE 0)

DatetimeSpan(s) == CHOOSE n \in {SpanFrom(s, pre) : pre \in {DatePrefix(s)}} : TRUE

-----------------------------------------------------------------------------
(* dateutil.parser.parse(date + " " + time, dayfirst=True), lines 41-42    *)
(* and 52-53.  The library is not part of the program; it is modelled on   *)
(* the shapes an export produces (InDomain) by the calendar rule it        *)
(* applies there, and left open (it may return or raise) everywhere else.  *)

DigitVal(c) == CHOOSE n \in 0..9 : <<"0", "1", "2", "3", "4", "5", "6", "7", "8", "9">>[n + 1] = c

RECURSIVE ToNat(_)
ToNat(ds) ==
    IF ds = <<>> THEN 0
    ELSE 10 * ToNat(SubSeq(ds, 1, Len(ds) - 1)) + DigitVal(ds[Len(ds)])

\* the fields of s between the characters of seps (every separator cuts);
\* n is the length of the first field
RECURSIVE SplitAt(_, _, _)
SplitAt(s, seps, n) ==
    IF n = Len(s) THEN <<s>>
    ELSE <<SubSeq(s, 1, n)>> \o
         SplitAt(SubSeq(s, n + 2, Len(s)), seps, RunNotIn(s, n + 2, seps))

Split(s, seps) == SplitAt(s, seps, RunNotIn(s, 1, seps))

AllDigits(s) == s # <<>> /\ \A n \in 1..Len(s) : s[n] \in Digit

HasAmPm(time) == Len(time) >= 3 /\ AmPmAt(time, Len(time) - 2)
Clock(time) == IF HasAmPm(time) THEN SubSeq(time, 1, Len(time) - 3) ELSE time

\* the shapes modelled: d/m/y or d-m-y with a 4-digit year or a 2-digit one
\* below 50 and a first field that cannot be a year, H:MM with or without
\* AM/PM; f and g are the fields of the date and of the clock
InDomainOf(date, f, g) ==
    /\ Len(f) = 3
    /\ \A n \in 1..3 : AllDigits(f[n])
    /\ Len(f[1]) <= 2 /\ Len(f[2]) <= 2 /\ Len(f[3]) \in {2, 4}
    /\ ToNat(f[1]) <= 31
    /\ (Len(f[3]) = 2 => ToNat(f[3]) < 50)
    /\ \A n \in 1..Len(date) : date[n] \in {"/", "-"} => date[n] = date[Len(f[1]) + 1]
    /\ Len(g) = 2
    /\ \A n \in 1..2 : AllDigits(g[n]) /\ Len(g[n]) <= 2

LeapYear(y) == (y % 4 = 0 /\ y % 100 # 0) \/ y % 400 = 0

DaysIn(m, y) ==
    CASE m \in {4, 6, 9, 11} -> 30
      [] m = 2 -> IF LeapYear(y) THEN 29 ELSE 28
      [] OTHER -> 31

\* the fields dateutil resolves inside the domain: with dayfirst the first
\* number is the day unless only the other order can be a date
ResolveOf(time, f, g) ==
    LET a  == ToNat(f[1])
        b  == ToNat(f[2])
        c  == ToNat(f[3])
        df == a > 12 \/ b <= 12
        h  == ToNat(g[1])
        pm == HasAmPm(time) /\ time[Len(time) - 1] = "P"
    IN  [year   |-> IF Len(f[3]) = 2 THEN 2000 + c ELSE c,
         month  |-> IF df THEN b ELSE a,
         day    |-> IF df THEN a ELSE b,
         hour   |-> IF HasAmPm(time)
                    THEN (IF pm /\ h < 12 THEN h + 12
                          ELSE IF ~pm /\ h = 12 THEN 0 ELSE h)
                    ELSE h,
         minute |-> ToNat(g[2]),
         clock12ok |-> HasAmPm(time) => h <= 12]

ValidDateTime(d) ==
    /\ d.clock12ok
    /\ d.year >= 1 /\ d.year <= 9999
    /\ d.month >= 1 /\ d.month <= 12
    /\ d.day >= 1 /\ d.day <= DaysIn(d.month, d.year)
    /\ d.hour <= 23 /\ d.minute <= 59

\* what the library raises: its own exception type, whose text quotes at
\* most the string it was handed
ParserError(date, time) ==
    [type |-> "dateutil.parser.ParserError",
     text |-> <<"<reason>: ">> \o date \o <<" ">> \o time]

SomeDatetime == [year |-> 0, month |-> 0, day |-> 0, hour |-> 0, minute |-> 0]

Returned(v) == [kind |-> "return", value |-> v]
ReturnedNone == [kind |-> "None"]
Raised(e) == [kind |-> "raise", exc |-> e]

InDomain(date, time) ==
    InDomainOf(date, Split(date, {"/", "-"}), Split(Clock(time), {":"}))

Resolve(date, time) ==
    CHOOSE d \in {ResolveOf(time, f, g) :
                    f \in {Split(date, {"/", "-"})}, g \in {Split(Clock(time), {":"})}} : TRUE

DateutilOutcome(date, time, d) ==
    IF ValidDateTime(d)
    THEN Returned([year |-> d.year, month |-> d.month, day |-> d.day,
                   hour |-> d.hour, minute |-> d.minute])
    ELSE Raised(ParserError(date, time))

DateutilParse(date, time) ==
    IF InDomain(date, time)
    THEN {DateutilOutcome(date, time, d) : d \in {Resolve(date, time)}}
    ELSE {Returned(SomeDatetime), Raised(ParserError(date, time))}

-----------------------------------------------------------------------------
(* ParseLine, lines 37-55.                                                 *)

\* PLACEHOLDER with another name
PLACEHOLDER_System == <<"S", "y", "s", "t", "e", "m">>

\* line 54: the sender given to a headerless line
PLACEHOLDER == <<"W", "h", "a", "t", "s", "a", "p", "p">>

SPAN == 16

\* FirstlineSpanOK taking any span of at least 16
FirstlineSpanOK_AtLeast(line) == DatetimeSpan(line) >= SPAN

\* line 48: the span test of the headerless form
FirstlineSpanOK(line) == DatetimeSpan(line) = SPAN

\* the set of things ParseLine(line) can do: return a (d, user, body) tuple
\* (kind "return"), return None (kind "None"), or let the date parser's
\* exception through (kind "raise")
ParseWith(line, m, f) ==
    IF m.ok
    THEN {IF r.kind = "raise" THEN r ELSE Returned(<<r.value, m.name, m.body>>) :
             r \in DateutilParse(m.date, m.time)}
    ELSE IF f.ok /\ ~FirstlineSpanOK(line)
    THEN {ReturnedNone}
    ELSE IF f.ok
    THEN {IF r.kind = "raise" THEN r ELSE Returned(<<r.value, PLACEHOLDER, f.body>>) :
             r \in DateutilParse(f.date, f.time)}
    ELSE {ReturnedNone}

ParseLine(line) ==
    UNION {ParseWith(line, m, f) :
             m \in {ReMatch(line, TRUE)}, f \in {ReMatch(line, FALSE)}}

-----------------------------------------------------------------------------
(* The lines the runs below are given.                                     *)

\* The lines of an export, as fd.readlines() gives them (a newline only at
\* the end, the last line of a file possibly without one): named headers of
\* two senders, a bracketed header, a system header of span 16, a system line
\* of another span, continuation lines with blanks at both ends, a header
\* whose date is no calendar date, a bare audio attachment.
LineSet ==
    {<<"0", "1", "/", "0", "1", "/", "2", "0", "2", "0", " ", "1", "0", ":", "0", "0", " ", "-", " ", "A", ":", " ", "h", "i", NL>>,
     <<"0", "1", "/", "0", "1", "/", "2", "0", "2", "0", " ", "1", "0", ":", "0", "1", " ", "-", " ", "B", ":", " ", "y", "o", NL>>,
     <<"[", "0", "1", "/", "0", "1", "/", "2", "0", " ", "1", "0", ":", "0", "2", "]", " ", "A", ":", " ", "o", "k">>,
     <<"0", "1", "/", "0", "1", "/", "2", "0", "2", "0", " ", "1", "0", ":", "0", "3", " ", "-", " ", "j", "o", "i", "n", "e", "d", NL>>,
     <<"1", "/", "1", "/", "2", "0", " ", "1", "0", ":", "0", "4", " ", "-", " ", "l", "e", "f", "t", NL>>,
     <<" ", " ", "t", "w", "o", " ", NL>>,
     <<"x", NL>>,
     <<NL>>,
     <<"3", "1", "/", "0", "2", "/", "2", "0", "2", "0", " ", "1", "0", ":", "0", "0", " ", "-", " ", "A", ":", " ", "b", "a", "d", NL>>,
     <<"0", "1", "/", "0", "1", "/", "2", "0", "2", "0", " ", "1", "0", ":", "0", "5", " ", "-", " ", "B", ":", " ", "s", ".", "m", "p", "3", NL>>}

\* header-shaped lines by parts: [ date , time ] rest newline
HOpen == {<<>>, <<"[">>}
HDate == {<<"0", "1", "/", "0", "1", "/", "2", "0", "2", "0">>,
          <<"1", "/", "1", "/", "2", "0">>,
          <<"0", "1", "/", "0", "1", "/", "2", "0">>,
          <<"3", "1", "/", "0", "2", "/", "2", "0", "2", "0">>}
HComma == {<<>>, <<",">>}
HTime == {<<"1", "0", ":", "0", "0">>,
          <<"9", ":", "0", "5">>,
          <<"1", "0", ":", "0", "0", " ", "A", "M">>,
          <<"1", ":", "0", "0", " ", "P", "M">>,
          <<"2", "5", ":", "0", "0">>,
          <<"1", "0", ":", "0", "0", ":">>}
HClose == {<<>>, <<"]">>}
HRest ==
    {<<" ", "-", " ", "A", ":", " ", "h", "i">>,
     <<":", " ", "A", ":", " ", "h", "i">>,
     <<" ", "A", ":", " ", "h", "i">>,
     <<" ", "-", " ", "j", "o", "i", "n", "e", "d">>,
     <<" ", "h", "e", "l", "l", "o">>,
     <<"-", " ", "x">>,
     <<>>,
     <<" ", "-", " ", "A", " ", "B", ":", " ", "c", ":", " ", "d">>,
     <<" ", "-", " ", ":", " ", "h", "i">>,
     <<"A", "M", "x">>,
     <<" ", "-", " ", "a", ":", "b", ":", " ", "c">>}
HEnd == {<<>>, <<NL>>}

ParseInputs ==
    {o \o d \o c \o <<" ">> \o t \o b \o r \o e :
        o \in HOpen, d \in HDate, c \in HComma, t \in HTime, b \in HClose,
        r \in HRest, e \in HEnd}
    \cup LineSet

-----------------------------------------------------------------------------
(* IdentifyMessages, lines 58-85.                                          *)

\* msg_date = msg_user = msg_body = None; only msg_date is ever tested
NoneDate == [none |-> TRUE]
NoMsg == <<NoneDate, <<>>, <<>>>>
NoErr == "NoErr"

\* FirstLineError reporting the stripped line
FirstLineError_Stripped(line) ==
    [type |-> "Error",
     text |-> <<"Can't parse the first line: ">> \o Repr(Strip(line))
              \o <<", regexes are FIRSTLINE_RE=">> \o Repr(FIRSTLINE_RE)
              \o <<" and WHATSAPP_RE=">> \o Repr(WHATSAPP_RE)]

\* the exception of lines 78-80
FirstLineError(line) ==
    [type |-> "Error",
     text |-> <<"Can't parse the first line: ">> \o Repr(line)
              \o <<", regexes are FIRSTLINE_RE=">> \o Repr(FIRSTLINE_RE)
              \o <<" and WHATSAPP_RE=">> \o Repr(WHATSAPP_RE)]

\* what is appended to msg_body for a line ParseLine returns None for, line 81
Continuation(line) == <<NL>> \o Strip(line)

\* ForLine without lines 70-74: a new header replaces the message in
\* progress, which is never added to the list
ForLine_NoAppend ==
    /\ pc = "IdentifyMessages"
    /\ idx < Len(lines)
    /\ LET line == lines[idx + 1]
       IN  \E r \in ParseLine(line) :
             /\ idx' = idx + 1
             /\ IF r.kind = "raise"
                THEN /\ pc' = "raised"
                     /\ err' = r.exc
                     /\ UNCHANGED <<msg, messages>>
                ELSE IF r.kind = "return"
                THEN /\ msg' = r.value
                     /\ UNCHANGED <<messages, pc, err>>
                ELSE IF msg[1] = NoneDate
                THEN /\ pc' = "raised"
                     /\ err' = FirstLineError(line)
                     /\ UNCHANGED <<msg, messages>>
                ELSE /\ msg' = <<msg[1], msg[2], msg[3] \o Continuation(line)>>
                     /\ UNCHANGED <<messages, pc, err>>
    /\ UNCHANGED <<lines, input_filename, data, html, pline, presult, rmsg, rout>>

\* one iteration of the for loop, lines 67-81
ForLine ==
    /\ pc = "IdentifyMessages"
    /\ idx < Len(lines)
    /\ LET line == lines[idx + 1]
       IN  \E r \in ParseLine(line) :
             /\ idx' = idx + 1
             /\ IF r.kind = "raise"
                THEN /\ pc' = "raised"
                     /\ err' = r.exc
                     /\ UNCHANGED <<msg, messages>>
                ELSE IF r.kind = "return"
                THEN /\ messages' = IF msg[1] # NoneDate THEN Append(messages, msg)
                                                     ELSE messages
                     /\ msg' = r.value
                     /\ UNCHANGED <<pc, err>>
                ELSE IF msg[1] = NoneDate
                THEN /\ pc' = "raised"
                     /\ err' = FirstLineError(line)
                     /\ UNCHANGED <<msg, messages>>
                ELSE /\ msg' = <<msg[1], msg[2], msg[3] \o Continuation(line)>>
                     /\ UNCHANGED <<messages, pc, err>>
    /\ UNCHANGED <<lines, input_filename, data, html, pline, presult, rmsg, rout>>

\* ReturnMessages without lines 83-84: the message in progress is not added
ReturnMessages_NoFlush ==
    /\ pc = "IdentifyMessages"
    /\ idx = Len(lines)
    /\ pc' = "TemplateData"
    /\ UNCHANGED <<lines, input_filename, idx, msg, messages, err, data, html,
                   pline, presult, rmsg, rout>>

\* lines 82-85: the last message, then the return to main
ReturnMessages ==
    /\ pc = "IdentifyMessages"
    /\ idx = Len(lines)
    /\ messages' = IF msg[1] # NoneDate THEN Append(messages, msg) ELSE messages
    /\ pc' = "TemplateData"
    /\ UNCHANGED <<lines, input_filename, idx, msg, err, data, html,
                   pline, presult, rmsg, rout>>

-----------------------------------------------------------------------------
(* TemplateData, lines 88-113.                                             *)

\* number of leading messages of ms whose sender is user
RECURSIVE SameKey(_, _)
SameKey(ms, user) ==
    IF ms # <<>> /\ ms[1][2] = user THEN 1 + SameKey(Tail(ms), user) ELSE 0

\* GroupBy keeping the group iterators instead of list(msgs_of_user): by the
\* time they are read groupby has moved on and each of them is empty
RECURSIVE GroupBy_Lazy(_)
GroupBy_Lazy(ms) ==
    IF ms = <<>> THEN <<>>
    ELSE << <<ms[1][2], <<>>>> >>
           \o GroupBy_Lazy(SubSeq(ms, SameKey(ms, ms[1][2]) + 1, Len(ms)))

\* GroupBy collecting all the messages of a sender in one group (a dict of
\* lists), senders in first-seen order
RECURSIVE GroupBy_Merged(_)
GroupBy_Merged(ms) ==
    IF ms = <<>> THEN <<>>
    ELSE << <<ms[1][2], SelectSeq(ms, LAMBDA m : m[2] = ms[1][2])>> >>
           \o GroupBy_Merged(SelectSeq(ms, LAMBDA m : m[2] # ms[1][2]))

\* itertools.groupby(messages, lambda x: x[1]) collected as lines 95-96 do
RECURSIVE GroupBy(_)
GroupBy(ms) ==
    IF ms = <<>> THEN <<>>
    ELSE LET user == ms[1][2]
             n    == SameKey(ms, user)
         IN  << <<user, SubSeq(ms, 1, n)>> >> \o GroupBy(SubSeq(ms, n + 1, Len(ms)))

\* the names n of lines 98-103: first-seen order, no repeats
RECURSIVE Distinct(_)
Distinct(us) ==
    IF us = <<>> THEN <<>>
    ELSE LET front == Distinct(SubSeq(us, 1, Len(us) - 1))
             u     == us[Len(us)]
         IN  IF \E n \in 1..Len(front) : front[n] = u THEN front ELSE Append(front, u)

\* os.path.basename
RECURSIVE Basename(_)
Basename(path) ==
    IF \E n \in 1..Len(path) : path[n] = "/" THEN Basename(Tail(path)) ELSE path

\* the colours random.randint(100, 200) can give, cut down to the two ends
Colour == {<<100, 100, 100>>, <<200, 200, 200>>}

TemplateData ==
    /\ pc = "TemplateData"
    /\ \E by_user \in {GroupBy(messages)} :
       \E names \in {Distinct([g \in 1..Len(by_user) |-> by_user[g][1]])} :
       \E col \in [1..Len(names) -> Colour] :
          data' = [by_user |-> by_user,
                   input_basename |-> Basename(input_filename),
                   input_full_path |-> input_filename,
                   users |-> [n \in 1..Len(names) |-> <<names[n], col[n]>>]]
    /\ pc' = "FormatHTML"
    /\ UNCHANGED <<lines, input_filename, idx, msg, messages, err, html,
                   pline, presult, rmsg, rout>>

-----------------------------------------------------------------------------
(* FormatHTML, lines 116-428: what the template does with one message.     *)

MISSED_VOICE == <<"C", "h", "a", "m", "a", "d", "a", " ", "d", "e", " ", "v", "o", "z", " ", "p", "e", "r", "d", "i", "d", "a">>
MISSED_VIDEO == <<"C", "h", "a", "m", "a", "d", "a", " ", "d", "e", " ", "v", "i_acute", "d", "e", "o", " ", "p", "e", "r", "d", "i", "d", "a">>
LOCALIZACAO == <<"l", "o", "c", "a", "l", "i", "z", "a", "c_cedilla", "a_tilde", "o", ":">>
OPUS_ANEXADO == <<".", "o", "p", "u", "s", " ", "(", "a", "r", "q", "u", "i", "v", "o", " ", "a", "n", "e", "x", "a", "d", "o", ")">>
MP3_ANEXADO == <<".", "m", "p", "3", " ", "(", "a", "r", "q", "u", "i", "v", "o", " ", "a", "n", "e", "x", "a", "d", "o", ")">>
MP3 == <<".", "m", "p", "3">>
MP4_ANEXADO == <<".", "m", "p", "4", " ", "(", "a", "r", "q", "u", "i", "v", "o", " ", "a", "n", "e", "x", "a", "d", "o", ")">>
WEBP_ARQUIVO == <<".", "w", "e", "b", "p", " ", "(", "a", "r", "q", "u", "i", "v", "o">>
JPG_ANEXADO == <<".", "j", "p", "g", " ", "(", "a", "r", "q", "u", "i", "v", "o", " ", "a", "n", "e", "x", "a", "d", "o", ")">>
ANEXADO == <<"(", "a", "r", "q", "u", "i", "v", "o", " ", "a", "n", "e", "x", "a", "d", "o", ")">>
SP_ANEXADO == <<" ", "(", "a", "r", "q", "u", "i", "v", "o", " ", "a", "n", "e", "x", "a", "d", "o", ")">>
ARQUIVO == <<" ", "(", "a", "r", "q", "u", "i", "v", "o">>
MIDIAS == <<".", "/", "M", "i", "d", "i", "a", "s", "/">>

\* the | e filter (markupsafe.escape)
EscapeHtmlChar(c) ==
    CASE c = "&"  -> <<"&", "a", "m", "p", ";">>
      [] c = "<"  -> <<"&", "l", "t", ";">>
      [] c = ">"  -> <<"&", "g", "t", ";">>
      [] c = "'"  -> <<"&", "#", "3", "9", ";">>
      [] c = "\"" -> <<"&", "#", "3", "4", ";">>
      [] OTHER    -> <<c>>
E(s) == Flatten([n \in 1..Len(s) |-> EscapeHtmlChar(s[n])])

\* s.replace(old, "")
RECURSIVE Remove(_, _)
Remove(s, old) ==
    IF s = <<>> THEN <<>>
    ELSE IF OccursAt(s, old, 0) THEN Remove(SubSeq(s, Len(old) + 1, Len(s)), old)
    ELSE <<Head(s)>> \o Remove(Tail(s), old)

ValueError == [type |-> "ValueError", text |-> <<"substring not found">>]

Rendered(li, missed, category, filename, text) ==
    [kind |-> "ok", li |-> li, missed |-> missed, category |-> category,
     filename |-> filename, src |-> IF category \in {"Audio", "Video", "Image", "GenericFile"}
                                    THEN MIDIAS \o E(filename) ELSE <<>>,
     text |-> text]

\* message[2][1:message[2].index(' (arquivo')] inside a media element
Media(li, missed, category, body) ==
    LET k == Index(body, ARQUIVO)
    IN  IF k = -1 THEN Raised(ValueError)
        ELSE Rendered(li, missed, category, Slice(body, 1, k), <<>>)

\* the {% if %} ... {% elif %} chain of lines 265-310 and 321-366 (webp) and
\* of lines 379-415 (no webp branch)
Chain(li, body, webp) ==
    LET missed == body = MISSED_VOICE \/ body = MISSED_VIDEO
    IN  IF In(LOCALIZACAO, body)
        THEN Rendered(li, missed, "LocationShare", <<>>,
                      E(SliceFrom(body, Index(body, LOCALIZACAO) + 13)))
        ELSE IF EndsWith(body, OPUS_ANEXADO) \/ EndsWith(body, MP3_ANEXADO)
                \/ EndsWith(body, MP3)
        THEN Media(li, missed, "Audio", body)
        ELSE IF EndsWith(body, MP4_ANEXADO)
        THEN Media(li, missed, "Video", body)
        ELSE IF webp /\ In(WEBP_ARQUIVO, body)
        THEN Media(li, missed, "Image", body)
        ELSE IF EndsWith(body, JPG_ANEXADO)
        THEN Media(li, missed, "Image", body)
        ELSE IF In(ANEXADO, body)
        THEN LET k == Index(body, ARQUIVO)
                 c == Index(body, <<")">>)
                 t == IF SliceFrom(body, c + 1) # <<>>
                      THEN E(SliceFrom(body, c + 2))
                      ELSE E(Remove(body, SP_ANEXADO))
             IN  IF k = -1 THEN Raised(ValueError)
                 ELSE Rendered(li, missed, "GenericFile", Slice(body, 1, k), t)
        ELSE Rendered(li, missed, "PlainText", <<>>,
                      IF In(<<NL>>, body) THEN body ELSE E(body))

\* the body of {% for message in messages %}, lines 248-418
RenderMessage(user, users, input_basename, message) ==
    IF user = PLACEHOLDER
    THEN Rendered("Whatsapp", FALSE, "PlainText", <<>>, E(message[3]))
    ELSE IF Len(users) <= 3
    THEN (IF In(user, input_basename)
          THEN Chain("le", message[3], TRUE)
          ELSE Chain("ri", message[3], TRUE))
    ELSE Chain("le", message[3], FALSE)

\* the two nested loops of lines 244-423 over by_user
RenderAll(d) ==
    Flatten([g \in 1..Len(d.by_user) |->
               [n \in 1..Len(d.by_user[g][2]) |->
                  RenderMessage(d.by_user[g][1], d.users, d.input_basename,
                                d.by_user[g][2][n])]])

FormatHTML ==
    /\ pc = "FormatHTML"
    /\ \E out \in {RenderAll(data)} :
       \E bad \in {{n \in 1..Len(out) : out[n].kind = "raise"}} :
          IF bad = {}
          THEN /\ html' = out
               /\ pc' = "write"
               /\ UNCHANGED err
          ELSE /\ err' = out[CHOOSE n \in bad : \A o \in bad : n <= o].exc
               /\ pc' = "raised"
               /\ UNCHANGED html
    /\ UNCHANGED <<lines, input_filename, idx, msg, messages, data,
                   pline, presult, rmsg, rout>>

\* lines 444-448: the page is written
WriteOutput ==
    /\ pc = "write"
    /\ pc' = "done"
    /\ UNCHANGED <<lines, input_filename, idx, msg, messages, err, data, html,
                   pline, presult, rmsg, rout>>

-----------------------------------------------------------------------------
(* main, lines 430-448: the inputs and the run.                            *)

MaxLines == 3

InputFiles == {<<"A", ".", "t", "x", "t">>,
               <<"d", "/", "c", "h", "a", "t", ".", "t", "x", "t">>}

Pending == [kind |-> "pending"]

SeqsUpTo(S, n) == UNION {[1..k -> S] : k \in 0..n}

Init ==
    /\ lines \in SeqsUpTo(LineSet, MaxLines)
    /\ input_filename \in InputFiles
    /\ idx = 0
    /\ msg = NoMsg
    /\ messages = <<>>
    /\ pc = "IdentifyMessages"
    /\ err = NoErr
    /\ data = [by_user |-> <<>>]
    /\ html = <<>>
    /\ pline = <<>>
    /\ presult = Pending
    /\ rmsg = [user |-> <<>>]
    /\ rout = Pending

Next == ForLine \/ ReturnMessages \/ TemplateData \/ FormatHTML \/ WriteOutput

Spec == Init /\ [][Next]_vars

-----------------------------------------------------------------------------
(* ParseLine on its own, over header-shaped and other lines.               *)

Idle ==
    /\ lines = <<>>
    /\ input_filename = <<>>
    /\ idx = 0
    /\ msg = NoMsg
    /\ messages = <<>>
    /\ pc = "idle"
    /\ err = NoErr
    /\ data = [by_user |-> <<>>]
    /\ html = <<>>

InitParseLine ==
    /\ Idle
    /\ pline \in ParseInputs
    /\ presult = Pending
    /\ rmsg = [user |-> <<>>]
    /\ rout = Pending

CallParseLine ==
    /\ presult = Pending
    /\ pline # <<>>
    /\ presult' \in ParseLine(pline)
    /\ UNCHANGED <<lines, input_filename, idx, msg, messages, pc, err, data, html,
                   pline, rmsg, rout>>

SpecParseLine == InitParseLine /\ [][CallParseLine]_vars

-----------------------------------------------------------------------------
(* The template's message block on its own, over attachment-shaped and     *)
(* other bodies, for each kind of sender and size of the users list.       *)

BLead == {<<>>, <<"LRM">>}
BName == {<<"f">>,
          <<"f", ")">>}
BExt == {<<".", "j", "p", "g">>,
         <<".", "w", "e", "b", "p">>,
         <<".", "m", "p", "3">>,
         <<".", "o", "p", "u", "s">>,
         <<".", "m", "p", "4">>,
         <<".", "p", "d", "f">>,
         <<>>}
BMarker == {<<>>,
            <<" ", "(", "a", "r", "q", "u", "i", "v", "o", " ", "a", "n", "e", "x", "a", "d", "o", ")">>,
            <<"(", "a", "r", "q", "u", "i", "v", "o", " ", "a", "n", "e", "x", "a", "d", "o", ")">>}
BTrail == {<<>>,
           <<" ", "x">>,
           <<NL, "y">>}
BOther ==
    {<<"C", "h", "a", "m", "a", "d", "a", " ", "d", "e", " ", "v", "o", "z", " ", "p", "e", "r", "d", "i", "d", "a">>,
     <<"C", "h", "a", "m", "a", "d", "a", " ", "d", "e", " ", "v", "i_acute", "d", "e", "o", " ", "p", "e", "r", "d", "i", "d", "a">>,
     <<"l", "o", "c", "a", "l", "i", "z", "a", "c_cedilla", "a_tilde", "o", ":", " ", "h", "t", "t", "p", "s", ":", "/", "/", "m", "/", "?", "q", "=", "1", ",", "2">>,
     <<"h", "i">>,
     <<"a", NL, "b">>,
     <<"<", "b", ">">>}

Bodies ==
    {l \o n \o x \o m \o r :
        l \in BLead, n \in BName, x \in BExt, m \in BMarker, r \in BTrail}
    \cup BOther

SenderA == <<"A">>
SenderB == <<"B">>
SenderC == <<"C">>
SomeColour == <<100, 100, 100>>
UsersLists ==
    {<<<<SenderA, SomeColour>>, <<SenderB, SomeColour>>, <<PLACEHOLDER, SomeColour>>>>,
     <<<<SenderA, SomeColour>>, <<SenderB, SomeColour>>, <<PLACEHOLDER, SomeColour>>,
       <<SenderC, SomeColour>>>>}

InitTemplate ==
    /\ Idle
    /\ pline = <<>>
    /\ presult = Pending
    /\ rmsg \in [user : {SenderA, SenderB, PLACEHOLDER}, users : UsersLists,
                 input_basename : {Basename(f) : f \in InputFiles}, body : Bodies]
    /\ rout = Pending

CallRenderMessage ==
    /\ rout = Pending
    /\ "body" \in DOMAIN rmsg
    /\ rout' = RenderMessage(rmsg.user, rmsg.users, rmsg.input_basename,
                             <<SomeDatetime, rmsg.user, rmsg.body>>)
    /\ UNCHANGED <<lines, input_filename, idx, msg, messages, pc, err, data, html,
                   pline, presult, rmsg>>

SpecTemplate == InitTemplate /\ [][CallRenderMessage]_vars

-----------------------------------------------------------------------------
(* Properties of the segmenter.                                            *)

\* the one thing ParseLine does with each line of LineSet (their dates are
\* all inside the modelled domain of the date parser), tabulated
OutcomeOf == {<<l, CHOOSE r \in ParseLine(l) : TRUE>> : l \in LineSet}
Outcome(line) == (CHOOSE t \in OutcomeOf : t[1] = line)[2]
Accepted(line) == Outcome(line).kind = "return"
Rejected(line) == Outcome(line).kind = "None"

\* the (d, user, body) tuples of the accepted lines of ls, in order
RECURSIVE HeadersOf(_)
HeadersOf(ls) ==
    IF ls = <<>> THEN <<>>
    ELSE LET r == Outcome(Head(ls))
         IN  (IF r.kind = "return" THEN <<r.value>> ELSE <<>>) \o HeadersOf(Tail(ls))

IsPrefix(a, b) == Len(a) <= Len(b) /\ SubSeq(b, 1, Len(a)) = a

\* ms are messages started by the headers hs, one each, in order
StartedBy(ms, hs) ==
    /\ Len(ms) = Len(hs)
    /\ \A k \in 1..Len(ms) :
         /\ ms[k][1] = hs[k][1]
         /\ ms[k][2] = hs[k][2]
         /\ IsPrefix(hs[k][3], ms[k][3])

\* IdentifyMessages has returned its list
Segmented ==
    \/ pc \in {"TemplateData", "FormatHTML", "write", "done"}
    \/ pc = "raised" /\ err.type = "ValueError"

\* C1: while the loop runs, the output followed by the message in progress
\* holds exactly one message per accepted line consumed so far, in the order
\* of those lines; once the list is returned it holds one message per
\* accepted line of the input, in order.
C1_OneMessagePerHeader ==
    /\ pc = "IdentifyMessages" =>
         StartedBy(messages \o (IF msg[1] # NoneDate THEN <<msg>> ELSE <<>>),
                   HeadersOf(SubSeq(lines, 1, idx)))
    /\ Segmented => StartedBy(messages, HeadersOf(lines))

C1_Witness ==
    /\ pc = "TemplateData"
    /\ Len(lines) = 3
    /\ Accepted(lines[1]) /\ Rejected(lines[2]) /\ Accepted(lines[3])
    /\ Len(messages) = 2
    /\ messages[1][2] # messages[2][2]

\* the body the message in progress has when every continuation line adds a
\* newline and the line without its trailing whitespace
RECURSIVE BodyKeepingIndent(_)
BodyKeepingIndent(ls) ==
    IF ls = <<>> THEN <<>>
    ELSE LET r == Outcome(ls[Len(ls)])
         IN  IF r.kind = "return" THEN r.value[3]
             ELSE BodyKeepingIndent(SubSeq(ls, 1, Len(ls) - 1))
                    \o <<NL>> \o RStrip(ls[Len(ls)])

\* C2: in a message, each continuation line adds a newline and the line with
\* only its trailing whitespace removed, so the lines of the body are the
\* input lines up to trailing whitespace.
C2_OnlyTrailingTrimmed ==
    (pc = "IdentifyMessages" /\ msg[1] # NoneDate)
        => msg[3] = BodyKeepingIndent(SubSeq(lines, 1, idx))

\* the value of a Python string literal, <<"<bad>">> if lit is none
RECURSIVE Unescape(_, _)
Unescape(s, q) ==
    IF s = <<>> THEN <<>>
    ELSE IF Head(s) = "\\"
    THEN (IF Len(s) >= 2 /\ s[2] \in {"\\", q}
          THEN <<s[2]>> \o Unescape(SubSeq(s, 3, Len(s)), q)
          ELSE IF Len(s) >= 2 /\ s[2] \in {"n", "t", "r"}
          THEN <<CASE s[2] = "n" -> "\n" [] s[2] = "t" -> "\t" [] OTHER -> "\r">>
                 \o Unescape(SubSeq(s, 3, Len(s)), q)
          ELSE IF Len(s) >= 4 /\ SubSeq(s, 2, 4) = <<"x", "0", "c">>
          THEN <<"\f">> \o Unescape(SubSeq(s, 5, Len(s)), q)
          ELSE <<"<bad>">>)
    ELSE IF Head(s) = q THEN <<"<bad>">>
    ELSE <<Head(s)>> \o Unescape(Tail(s), q)

LiteralValue(lit) ==
    IF Len(lit) >= 2 /\ lit[1] \in {"'", "\""} /\ lit[Len(lit)] = lit[1]
    THEN Unescape(SubSeq(lit, 2, Len(lit) - 1), lit[1])
    ELSE <<"<bad>">>

\* text holds a string literal whose value is s
QuotesLiteralOf(text, s) ==
    \E i \in 1..Len(text) :
       /\ text[i] \in {"'", "\""}
       /\ \E j \in (i + 1)..Len(text) :
             text[j] = text[i] /\ LiteralValue(SubSeq(text, i, j)) = s

\* C3: when the first line is rejected the run ends in the program's Error
\* at that line, with no message produced and no list returned, whatever
\* follows; the error text quotes the first line and both patterns (as
\* string literals whose values are exactly these).
C3_FirstLineFatal ==
    (Len(lines) >= 1 /\ Rejected(lines[1])) =>
        /\ messages = <<>> /\ msg = NoMsg
        /\ pc \in {"IdentifyMessages", "raised"}
        /\ pc = "IdentifyMessages" => idx = 0
        /\ pc = "raised" =>
             /\ idx = 1
             /\ err.type = "Error"
             /\ QuotesLiteralOf(err.text, lines[1])
             /\ QuotesLiteralOf(err.text, FIRSTLINE_RE)
             /\ QuotesLiteralOf(err.text, WHATSAPP_RE)

C3_Witness ==
    /\ pc = "raised"
    /\ Len(lines) = 3
    /\ Rejected(lines[1]) /\ lines[1] # Strip(lines[1])
    /\ Accepted(lines[2])

NoBadDate(ls) == \A k \in 1..Len(ls) : Accepted(ls[k]) \/ Rejected(ls[k])

\* C4 as claimed: an input with a header at any position, once the segmenter
\* is through with it, has given a non-empty list.
C4_AnyHeaderGivesMessages ==
    (/\ Len(lines) >= 1
     /\ \E k \in 1..Len(lines) : Accepted(lines[k])
     /\ NoBadDate(lines)
     /\ pc # "IdentifyMessages")
        => (Segmented /\ messages # <<>>)

\* C4, amended: an input whose first line is a header, and in which every
\* header-shaped line has a date the parser takes, never ends in the
\* segmenter's errors, and the list returned is not empty.
C4_FirstHeaderGivesMessages ==
    (/\ Len(lines) >= 1
     /\ Accepted(lines[1])
     /\ NoBadDate(lines))
        => /\ pc # "IdentifyMessages" => Segmented
           /\ Segmented => messages # <<>>

C4_Witness ==
    /\ pc = "done"
    /\ Len(lines) = 3
    /\ Accepted(lines[1]) /\ Rejected(lines[2]) /\ Rejected(lines[3])
    /\ Len(messages) = 1

-----------------------------------------------------------------------------
(* Properties of the header matcher, stated on the grammar itself: a line  *)
(* matches a pattern when it can be cut into the pattern's pieces.         *)

\* line[sp] is the space after a date that starts the line (after an
\* optional bracket, before an optional comma)
DateEndsAt(line, sp) ==
    /\ line[sp] = " "
    /\ \E o \in {0, 1}, c \in {0, 1} :
          /\ o = 1 => At(line, 1) = "["
          /\ c = 1 => At(line, sp - 1) = ","
          /\ sp - 1 - c - o >= 1
          /\ \A n \in (o + 1)..(sp - 1 - c) : line[n] \in DateClass

\* line[sp+1..e] is a time, with an optional AM/PM and closing bracket
TimeSpans(line, sp, e) ==
    \E ap \in {0, 3}, cl \in {0, 1} :
       /\ e - sp - ap - cl >= 1
       /\ \A n \in (sp + 1)..(e - ap - cl) : line[n] \in TimeClass
       /\ ap = 3 => AmPmAt(line, e - cl - 2)
       /\ cl = 1 => At(line, e) = "]"

\* the lengths of the prefixes of line that match DATETIME_RE
DatetimeEnds(line) ==
    {e \in 1..Len(line) : \E sp \in 1..(e - 1) : DateEndsAt(line, sp) /\ TimeSpans(line, sp, e)}

\* the lengths of the prefixes of line that match DATETIME_RE SEPARATOR_RE
SeparatorEnds(line) ==
    {x[1] + Len(SeparatorAlt[x[2]]) :
        x \in {y \in DatetimeEnds(line) \X (1..3) : OccursAt(line, SeparatorAlt[y[2]], y[1])}}

\* line[p+1..] matches .*$
BodyFrom(line, p) == \A n \in (p + 1)..(Len(line) - 1) : line[n] # NL

\* line[p+1..k-1] is a sender: not empty, no colon, followed by ': '
SenderTo(line, p, k) ==
    /\ k >= p + 2 /\ k < Len(line)
    /\ line[k] = ":" /\ line[k + 1] = " "
    /\ \A n \in (p + 1)..(k - 1) : line[n] # ":"

MatchesHeaderless(line) == \E p \in SeparatorEnds(line) : BodyFrom(line, p)
MatchesNamed(line) ==
    \E p \in SeparatorEnds(line) : \E k \in 1..Len(line) :
       SenderTo(line, p, k) /\ BodyFrom(line, k + 1)

Max(S) == CHOOSE x \in S : \A y \in S : y <= x

WithoutNewline(line) ==
    IF line # <<>> /\ line[Len(line)] = NL THEN SubSeq(line, 1, Len(line) - 1) ELSE line

\* C5: a line of the headerless form only is turned down (None) exactly when
\* its date+time span is not 16 characters wide; with a span of 16 it is
\* taken, unless the date parser refuses the date.
C5_HeaderlessSpan ==
    (presult # Pending /\ ~MatchesNamed(pline) /\ MatchesHeaderless(pline)) =>
        /\ presult.kind = "None" <=> Max(DatetimeEnds(pline)) # 16
        /\ presult.kind = "raise" => presult.exc = ParserError(ReMatch(pline, FALSE).date,
                                                               ReMatch(pline, FALSE).time)

C5_Witness ==
    /\ presult # Pending
    /\ ~MatchesNamed(pline) /\ MatchesHeaderless(pline)
    /\ presult.kind = "None"
    /\ Max(DatetimeEnds(pline)) = 17

\* C6 as claimed: the sender of a line taken in the headerless form is
\* "System".
C6_SenderIsSystem ==
    (presult.kind = "return" /\ ~MatchesNamed(pline)) =>
        presult.value[2] = <<"S", "y", "s", "t", "e", "m">>

\* C6, amended: the sender of a line taken in the headerless form is
\* "Whatsapp" and its body is what follows a date-time-separator prefix, up
\* to the line's newline; the sender of a line taken in the named form is the
\* text between such a prefix and the next colon, which ': ' follows, and its
\* body is what follows that ': '.
C6_SenderAndBody ==
    presult.kind = "return" =>
        IF MatchesNamed(pline)
        THEN \E p \in SeparatorEnds(pline) : \E k \in 1..Len(pline) :
                /\ SenderTo(pline, p, k)
                /\ presult.value[2] = SubSeq(pline, p + 1, k - 1)
                /\ presult.value[3] = SubSeq(WithoutNewline(pline), k + 2,
                                             Len(WithoutNewline(pline)))
        ELSE /\ presult.value[2] = <<"W", "h", "a", "t", "s", "a", "p", "p">>
             /\ \E p \in SeparatorEnds(pline) :
                   presult.value[3] = SubSeq(WithoutNewline(pline), p + 1,
                                             Len(WithoutNewline(pline)))

C6_Witness ==
    /\ presult.kind = "return"
    /\ ~MatchesNamed(pline)
    /\ presult.value[2] = <<"W", "h", "a", "t", "s", "a", "p", "p">>
    /\ presult.value[3] # <<>>
    /\ pline[Len(pline)] = NL

\* a line ParseLine hands to the date parser
HeaderShaped(line) ==
    MatchesNamed(line) \/ (MatchesHeaderless(line) /\ Max(DatetimeEnds(line)) = 16)

\* C7: when a header-shaped line has a date or time that is none, the run
\* ends in an error that shows the line and both patterns.
C7_DateErrorNamesLine ==
    (pc = "raised" /\ idx >= 1 /\ err.type # "ValueError" /\ HeaderShaped(lines[idx])) =>
        /\ In(lines[idx], err.text) \/ QuotesLiteralOf(err.text, lines[idx])
        /\ In(FIRSTLINE_RE, err.text) \/ QuotesLiteralOf(err.text, FIRSTLINE_RE)
        /\ In(WHATSAPP_RE, err.text) \/ QuotesLiteralOf(err.text, WHATSAPP_RE)

-----------------------------------------------------------------------------
(* TemplateData on its own, over conversations of up to MaxMessages        *)
(* messages of three senders.                                              *)

MaxMessages == 4

NewYear == [year |-> 2020, month |-> 1, day |-> 1, hour |-> 10, minute |-> 0]

MessageSet ==
    {<<NewYear, SenderA, <<"h", "i">>>>,
     <<NewYear, SenderA, <<"o", "k">>>>,
     <<NewYear, SenderB, <<"y", "o">>>>,
     <<NewYear, PLACEHOLDER, <<"j", "o", "i", "n", "e", "d">>>>}

InitTemplateData ==
    /\ lines = <<>>
    /\ input_filename \in InputFiles
    /\ idx = 0
    /\ msg = NoMsg
    /\ messages \in SeqsUpTo(MessageSet, MaxMessages)
    /\ pc = "TemplateData"
    /\ err = NoErr
    /\ data = [by_user |-> <<>>]
    /\ html = <<>>
    /\ pline = <<>>
    /\ presult = Pending
    /\ rmsg = [user |-> <<>>]
    /\ rout = Pending

SpecTemplateData == InitTemplateData /\ [][TemplateData]_vars

\* the message lists of the groups, one after the other
Regrouped(by_user) == Flatten([g \in 1..Len(by_user) |-> by_user[g][2]])

\* the number of runs of one sender in ms
Runs(ms) == Cardinality({k \in 1..Len(ms) : k = 1 \/ ms[k][2] # ms[k - 1][2]})

\* C8: the groups of by_user, joined in order, are the conversation: the
\* same messages in the same order, the empty conversation included.
C8_GroupsPartition ==
    pc = "FormatHTML" => Regrouped(data.by_user) = messages

C8_Witness ==
    /\ pc = "FormatHTML"
    /\ Len(messages) = 4
    /\ Len(data.by_user) = 3
    /\ data.by_user[1][1] = data.by_user[3][1]
    /\ messages[1] # messages[4]

\* C9: every group is a whole run of one sender: it is not empty, its
\* messages all have the group's sender, neighbouring groups have different
\* senders and there are as many groups as runs (no two runs share a group).
C9_GroupsAreRuns ==
    pc = "FormatHTML" =>
        /\ \A g \in 1..Len(data.by_user) :
              /\ data.by_user[g][2] # <<>>
              /\ \A n \in 1..Len(data.by_user[g][2]) :
                    data.by_user[g][2][n][2] = data.by_user[g][1]
        /\ \A g \in 1..(Len(data.by_user) - 1) :
              data.by_user[g][1] # data.by_user[g + 1][1]
        /\ Len(data.by_user) = Runs(messages)

C9_Witness ==
    /\ pc = "FormatHTML"
    /\ Len(messages) = 4
    /\ Len(data.by_user) = 3
    /\ Len(data.by_user[1][2]) = 2
    /\ data.by_user[3][1] = data.by_user[1][1]

-----------------------------------------------------------------------------
(* Properties of the template's message block.                             *)

\* C10: rendering a message never fails, whatever its body, and a body that
\* has none of the markers is shown as plain text.
C10_ClassifierNeverFails ==
    /\ rout.kind # "raise"
    /\ (/\ rout.kind = "ok"
        /\ ~In(LOCALIZACAO, rmsg.body) /\ ~In(ANEXADO, rmsg.body)
        /\ ~In(WEBP_ARQUIVO, rmsg.body) /\ ~EndsWith(rmsg.body, MP3))
          => rout.category = "PlainText"

\* C11: a body that is a file name ending in ".jpg" immediately followed by
\* " (arquivo anexado)", from a sender the classifier is applied to, is
\* rendered as an image whose file name is the whole name, every character
\* from the start of the body up to the marker.
C11_JpgWholeName ==
    (/\ rout.kind # "pending"
     /\ rmsg.user # PLACEHOLDER
     /\ EndsWith(rmsg.body, JPG_ANEXADO)
     /\ Len(rmsg.body) > Len(JPG_ANEXADO))
        => /\ rout.kind = "ok"
           /\ rout.category = "Image"
           /\ rout.filename = SubSeq(rmsg.body, 1, Len(rmsg.body) - Len(SP_ANEXADO))

\* the category and file name a rendering shows, or that it failed
Classified(r) ==
    IF r.kind = "ok" THEN <<r.category, r.filename>> ELSE <<"raise", <<>>>>

\* C12: the category and the file name shown for a rendered message are
\* those the same body gets from any sender, with any list of users and any
\* input file name.
C12_CategoryOfBodyAlone ==
    rout.kind = "ok" =>
        \A u \in {SenderA, SenderB, PLACEHOLDER}, us \in UsersLists, f \in InputFiles :
            Classified(RenderMessage(u, us, Basename(f), <<SomeDatetime, u, rmsg.body>>))
                = Classified(rout)

====
